---- MODULE Spec2Model ----
(***************************************************************************)
(* A model of CryptoPriceTracker (src/unnamed/part_000): the three price   *)
(* adapters (fetchKrakenPrices, fetchCoinbasePrices, fetchBinancePrices),  *)
(* the aggregation round fetchAllPrices and the effect that drives it on   *)
(* mount, on a currency change and every 30 s.                             *)
(*                                                                         *)
(* Money is counted in hundredths of a currency unit (cents), so that the  *)
(* reference table and the 1.08 conversion rate stay integers.  A JS       *)
(* number is a record [nan, v]; a 24h change is kept as the exact fraction *)
(* num/den of the expression the code evaluates.                           *)
(***************************************************************************)
EXTENDS Integers, Sequences, FiniteSets, TLC

VARIABLES
    currency,   \* useState<Currency>                       (line 30)
    prices,     \* useState<CryptoPrice[]>: the snapshot    (line 32)
    loading,    \* useState(true)                           (line 33)
    error,      \* useState<string | null>                  (line 34)
    mounted,    \* whether the effect of lines 174-178 has run at least once
    timers,     \* the live setInterval subscriptions, each with the currency
                \* its fetchAllPrices closure captured and the round its
                \* effect started
    rounds,     \* every fetchAllPrices call so far, in start order:
                \* [cur, status, err], err the exception its catch caught
    allPrices,  \* the local allPrices (line 162) of the last round whose
                \* Promise.all resolved
    pubGen,     \* the index in rounds of the call whose setPrices (line 166)
                \* wrote the present snapshot; 0 before any
    net,        \* adapter harness: the responses handed to the adapters
    ret,        \* adapter harness: what each adapter returned
    settled,    \* the adapters whose promise has settled, in the order they did
    sent,       \* per call of rounds, how many times fetch was called for
                \* each endpoint (lines 45, 85, 127, 128)
    hung        \* the endpoints whose request never gets an answer

vars == <<currency, prices, loading, error, mounted, timers, rounds,
          allPrices, pubGen, net, ret, settled, sent, hung>>

----------------------------------------------------------------------------
(* Bounds of the model.                                                    *)

\* How many fetchAllPrices calls a behaviour may start.
MaxRounds == 3

----------------------------------------------------------------------------
(* The fixed catalogs.                                                      *)

Currencies == {"USD", "EUR"}

cryptos == <<"BTC", "ETH", "SOL">>

platforms == <<"Kraken", "Coinbase", "Binance">>

NoError == "null"

ErrorMessage == "Error fetching prices. Please try again later."

\* Amounts are in cents; the table of line 15 holds whole euros.
YESTERDAY_PRICES_EUR(crypto) ==
    CASE crypto = "BTC" -> 70000 * 100
      [] crypto = "ETH" -> 2700 * 100
      [] crypto = "SOL" -> 186 * 100

\* EUR_TO_USD = 1.08, as the fraction 108 / 100.
EUR_TO_USD_NUM == 108

EUR_TO_USD_DEN == 100

YESTERDAY_PRICES_USD(crypto) ==
    (YESTERDAY_PRICES_EUR(crypto) * EUR_TO_USD_NUM) \div EUR_TO_USD_DEN

----------------------------------------------------------------------------
(* JS numbers, and the text fields of a payload.                            *)

Num(n) == [nan |-> FALSE, v |-> n]

NaN == [nan |-> TRUE, v |-> 0]

\* A text field of a JSON payload: a numeral, or anything parseFloat makes
\* no number of (other text, a field that is not there).
Numeral(n) == [kind |-> "numeral", v |-> n]

Junk == [kind |-> "junk", v |-> 0]

\* parseFloat: the number a numeral denotes, NaN for anything else.
parseFloat(text) == IF text.kind = "numeral" THEN Num(text.v) ELSE NaN

\* x > 0 on JS numbers: false for NaN.
GreaterThanZero(x) == ~x.nan /\ x.v > 0

\* A 24h change, the exact value of ((current - base) / base) * 100 as the
\* fraction num/den; den = 0 with num # 0 is +-Infinity, and 0/0 is NaN.
Frac(n, d) == [nan |-> FALSE, num |-> n, den |-> d]

FracNaN == [nan |-> TRUE, num |-> 0, den |-> 1]

Zero == Frac(0, 1)

\* PercentChange relative to the present price instead of the base.
PercentChangeOfCurrent(current, base) ==
    IF current.nan \/ base.nan \/ (base.v = 0 /\ current.v = 0)
    THEN FracNaN
    ELSE Frac((current.v - base.v) * 100, current.v)


PercentChange(current, base) ==
    IF current.nan \/ base.nan \/ (base.v = 0 /\ current.v = 0)
    THEN FracNaN
    ELSE Frac((current.v - base.v) * 100, base.v)

\* parseFloat of a percentage given with two decimals, v hundredths.
parsePercent(text) == IF text.kind = "numeral" THEN Frac(text.v, 100) ELSE FracNaN

----------------------------------------------------------------------------
(* try / catch: a block either returns a value or throws.                   *)

Returned(value) == [threw |-> FALSE, value |-> value]

Thrown == [threw |-> TRUE, value |-> <<>>]

\* try { block } catch { return fallback }
Catch(block, fallback) == IF block.threw THEN Returned(fallback) ELSE block

\* Array.prototype.map with a callback that may throw: the first throw
\* leaves the map.
MapOrThrow(results) ==
    IF \E i \in DOMAIN results : results[i].threw
    THEN Thrown
    ELSE Returned([i \in DOMAIN results |-> results[i].value])

CryptoPrice(symbol, price, platform, priceChange24h) ==
    [symbol |-> symbol, price |-> price, platform |-> platform,
     priceChange24h |-> priceChange24h]

Fallback(symbol, platform) == CryptoPrice(symbol, Num(0), platform, Zero)

----------------------------------------------------------------------------
(* Strings the code searches in or compares are kept as character           *)
(* sequences.                                                               *)

Chars(word) ==
    CASE word = "BTC"  -> <<"B", "T", "C">>
      [] word = "XBT"  -> <<"X", "B", "T">>
      [] word = "ETH"  -> <<"E", "T", "H">>
      [] word = "SOL"  -> <<"S", "O", "L">>
      [] word = "USD"  -> <<"U", "S", "D">>
      [] word = "EUR"  -> <<"E", "U", "R">>
      [] word = "USDT" -> <<"U", "S", "D", "T">>

\* String.prototype.includes
Includes(text, part) ==
    \E i \in 0..(Len(text) - Len(part)) :
        SubSeq(text, i + 1, i + Len(part)) = part

----------------------------------------------------------------------------
(* What the exchanges hold: the present price of each asset, in cents.      *)

UpstreamPriceEUR(crypto) ==
    CASE crypto = "BTC" -> 72000 * 100
      [] crypto = "ETH" -> 2646 * 100
      [] crypto = "SOL" -> 186 * 100

UpstreamPrice(crypto, cur) ==
    IF cur = "USD" THEN (UpstreamPriceEUR(crypto) * 108) \div 100
    ELSE UpstreamPriceEUR(crypto)

UpstreamOpen(crypto, cur) ==
    IF cur = "USD" THEN YESTERDAY_PRICES_USD(crypto)
    ELSE YESTERDAY_PRICES_EUR(crypto)

\* The shapes a price field of a payload is given in.
PriceText(shape, crypto, cur) ==
    CASE shape = "junk"     -> Junk
      [] shape = "zero"     -> Numeral(0)
      [] shape = "negative" -> Numeral(0 - UpstreamPrice(crypto, cur))
      [] OTHER              -> Numeral(UpstreamPrice(crypto, cur))

----------------------------------------------------------------------------
(* Kraken: one batched request (lines 39-78).                               *)

\* lines 42 and 53
krakenCrypto(crypto) == IF crypto = "BTC" THEN Chars("XBT") ELSE Chars(crypto)

\* The name Kraken gives a pair in its answer: XXBTZUSD, XETHZUSD, SOLUSD.
KrakenKey(crypto, cur) ==
    CASE crypto = "BTC" -> <<"X">> \o Chars("XBT") \o <<"Z">> \o Chars(cur)
      [] crypto = "ETH" -> <<"X">> \o Chars("ETH") \o <<"Z">> \o Chars(cur)
      [] OTHER          -> Chars(crypto) \o Chars(cur)

\* Object.keys(data.result).find(key => key.includes(krakenCrypto)), line 54:
\* the index of the first entry whose key includes the name, 0 for undefined.
FindPairKey(result, name) ==
    LET hits == {i \in DOMAIN result : Includes(result[i].key, name)}
    IN  IF hits = {} THEN 0 ELSE CHOOSE i \in hits : \A j \in hits : i <= j
\* KrakenQuote with a missing pair key thrown instead of answered by the
\* fallback quote.
KrakenQuoteMissThrows(crypto, result) ==
    LET pairKey == FindPairKey(result, krakenCrypto(crypto))
    IN  IF pairKey # 0
        THEN LET tickerData == result[pairKey]
             IN  IF ~tickerData.hasC
                 THEN Thrown
                 ELSE Returned(CryptoPrice(crypto, parseFloat(tickerData.c0), "Kraken",
                          PercentChange(parseFloat(tickerData.c0),
                                        parseFloat(tickerData.o))))
        ELSE Thrown

\* lines 53-72: the callback of cryptos.map
KrakenQuote(crypto, result) ==
    LET pairKey == FindPairKey(result, krakenCrypto(crypto))
    IN  IF pairKey # 0
        THEN LET tickerData == result[pairKey]
             IN  IF ~tickerData.hasC
                 THEN Thrown           \* tickerData.c[0] of undefined
                 ELSE Returned(CryptoPrice(crypto, parseFloat(tickerData.c0), "Kraken",
                          PercentChange(parseFloat(tickerData.c0),
                                        parseFloat(tickerData.o))))
        ELSE Returned(Fallback(crypto, "Kraken"))

\* lines 40-73: the try block
KrakenTry(data) ==
    IF data.transport THEN Thrown                      \* fetch / json reject
    ELSE IF Len(data.error) > 0 THEN Thrown            \* line 49
    ELSE IF ~data.hasResult THEN Thrown                \* Object.keys(undefined)
    ELSE MapOrThrow([i \in DOMAIN cryptos |-> KrakenQuote(cryptos[i], data.result)])
\* fetchKrakenPrices without its catch block.
fetchKrakenPricesNoCatch(data) == KrakenTry(data)

\* lines 39-78
fetchKrakenPrices(data) == Catch(KrakenTry(data), <<>>)

----------------------------------------------------------------------------
(* Coinbase: one request per asset (lines 80-121).                          *)

\* yesterdayPrice with the two tables taken for each other.
yesterdayPriceSwapped(crypto, cur) ==
    IF cur = "USD" THEN YESTERDAY_PRICES_EUR(crypto) ELSE YESTERDAY_PRICES_USD(crypto)

\* lines 93-95
yesterdayPrice(crypto, cur) ==
    IF cur = "USD" THEN YESTERDAY_PRICES_USD(crypto) ELSE YESTERDAY_PRICES_EUR(crypto)

\* lines 85-104: the inner try block, for one asset
CoinbaseTry(data, crypto, cur) ==
    IF data.transport THEN Thrown                      \* fetch / json reject
    ELSE IF data.hasErrors THEN Thrown                 \* line 89
    ELSE IF ~data.hasData THEN Thrown                  \* data.data.amount of undefined
    ELSE LET currentPrice == parseFloat(data.amount)
         IN  Returned(CryptoPrice(crypto, currentPrice, "Coinbase",
                 PercentChange(currentPrice, Num(yesterdayPrice(crypto, cur)))))
\* The callback of fetchCoinbasePrices without its own catch block.
CoinbaseQuoteNoCatch(data, crypto, cur) == CoinbaseTry(data, crypto, cur)

\* lines 83-114: the callback of cryptos.map, with its own catch
CoinbaseQuote(data, crypto, cur) ==
    Catch(CoinbaseTry(data, crypto, cur), Fallback(crypto, "Coinbase"))

\* lines 80-121; datas[i] answers the request for cryptos[i]
fetchCoinbasePrices(datas, cur) ==
    Catch(MapOrThrow([i \in DOMAIN cryptos |-> CoinbaseQuote(datas[i], cryptos[i], cur)]),
          <<>>)

----------------------------------------------------------------------------
(* Binance: two requests for all symbols, joined by symbol (lines 123-150). *)

\* line 125
BinanceSymbol(cur) == IF cur = "USD" THEN Chars("USDT") ELSE Chars(cur)

\* Array.prototype.find(ticker => ticker.symbol === tickerSymbol): the index
\* of the first such record, 0 for undefined.
FindTicker(tickers, tickerSymbol) ==
    LET hits == {i \in DOMAIN tickers : tickers[i].symbol = tickerSymbol}
    IN  IF hits = {} THEN 0 ELSE CHOOSE i \in hits : \A j \in hits : i <= j

\* lines 134-145: the callback of cryptos.map
BinanceQuote(crypto, cur, priceData, changeData) ==
    LET tickerSymbol == Chars(crypto) \o BinanceSymbol(cur)
        priceInfo    == FindTicker(priceData, tickerSymbol)
        changeInfo   == FindTicker(changeData, tickerSymbol)
    IN  CryptoPrice(crypto,
            IF priceInfo # 0 THEN parseFloat(priceData[priceInfo].text) ELSE Num(0),
            "Binance",
            IF changeInfo # 0 THEN parsePercent(changeData[changeInfo].text) ELSE Zero)

\* lines 124-145: the try block
BinanceTry(data, cur) ==
    IF data.transport THEN Thrown                      \* fetch / json reject
    ELSE IF ~data.priceIsArray THEN Thrown             \* priceData.find is not a function
    ELSE IF ~data.changeIsArray THEN Thrown            \* changeData.find is not a function
    ELSE Returned([i \in DOMAIN cryptos |->
             BinanceQuote(cryptos[i], cur, data.priceData, data.changeData)])
\* fetchBinancePrices without its catch block.
fetchBinancePricesNoCatch(data, cur) == BinanceTry(data, cur)

\* lines 123-150
fetchBinancePrices(data, cur) == Catch(BinanceTry(data, cur), <<>>)

----------------------------------------------------------------------------
(* The aggregation round (lines 152-172).                                   *)

\* lines 156-164: each adapter, called in the order of platforms
CallAdapter(platform, responses, cur) ==
    CASE platform = "Kraken"   -> fetchKrakenPrices(responses.kraken)
      [] platform = "Coinbase" -> fetchCoinbasePrices(responses.coinbase, cur)
      [] platform = "Binance"  -> fetchBinancePrices(responses.binance, cur)

\* Promise.all rejects as soon as one of its promises does.
PromiseAllRejects(results) == \E i \in DOMAIN results : results[i].threw

Values(results) == [i \in DOMAIN results |-> results[i].value]

\* Array.prototype.flat, one level
RECURSIVE Flat(_)
Flat(arrays) ==
    IF arrays = <<>> THEN <<>> ELSE Head(arrays) \o Flat(Tail(arrays))

\* price => price.price > 0, line 166
IsPositive(quote) == GreaterThanZero(quote.price)
\* FlatFilter without its filter.
FlatNoFilter(all) == Flat(all)

\* allPrices.flat().filter(price => price.price > 0), line 166
FlatFilter(all) == SelectSeq(Flat(all), IsPositive)

----------------------------------------------------------------------------
(* The answers the network can give.  A shape names how the answer treats   *)
(* one asset.                                                               *)

KrakenShapes == {"ok", "absent", "zero", "negative", "junk", "broken"}

KrakenEntry(shape, crypto, cur) ==
    [key  |-> KrakenKey(crypto, cur),
     hasC |-> shape # "broken",
     c0   |-> PriceText(shape, crypto, cur),
     o    |-> Numeral(UpstreamOpen(crypto, cur))]

\* The ticker answer to the pairs asked for, one entry per asset that is not
\* absent, in the order asked.
KrakenJson(shapes, cur) ==
    LET entry(i) == IF shapes[i] = "absent" THEN <<>>
                    ELSE <<KrakenEntry(shapes[i], cryptos[i], cur)>>
    IN  [transport |-> FALSE, error |-> <<>>, hasResult |-> TRUE,
         result |-> Flat([i \in DOMAIN cryptos |-> entry(i)])]

KrakenTransportError ==
    [transport |-> TRUE, error |-> <<>>, hasResult |-> FALSE, result |-> <<>>]

KrakenErrorField ==
    [transport |-> FALSE, error |-> <<"EQuery:Unknown asset pair">>,
     hasResult |-> FALSE, result |-> <<>>]

KrakenNoResult ==
    [transport |-> FALSE, error |-> <<>>, hasResult |-> FALSE, result |-> <<>>]

KrakenResponses(cur) ==
    {KrakenTransportError, KrakenErrorField, KrakenNoResult}
    \cup {KrakenJson(shapes, cur) : shapes \in [DOMAIN cryptos -> KrakenShapes]}

CoinbaseShapes == {"ok", "transport", "errors", "nodata", "zero", "negative", "junk"}

CoinbaseData(shape, crypto, cur) ==
    [transport |-> shape = "transport",
     hasErrors |-> shape = "errors",
     hasData   |-> shape \notin {"transport", "errors", "nodata"},
     amount    |-> PriceText(shape, crypto, cur)]

CoinbaseResponses(cur) ==
    {[i \in DOMAIN cryptos |-> CoinbaseData(shapes[i], cryptos[i], cur)] :
        shapes \in [DOMAIN cryptos -> CoinbaseShapes]}

BinanceShapes == {"ok", "noprice", "nochange", "zero", "negative", "junk"}

\* The 24h change Binance reports, in hundredths of a percent.
UpstreamPercent(crypto) ==
    CASE crypto = "BTC" -> 286
      [] crypto = "ETH" -> 0 - 200
      [] crypto = "SOL" -> 0

\* Binance answers with every symbol it trades, whatever the currency shown:
\* here the USDT and the EUR ticker of each asset.
BinancePriceData(shapes) ==
    LET ticker(i, cur) ==
            IF shapes[i] = "noprice" THEN <<>>
            ELSE <<[symbol |-> Chars(cryptos[i]) \o BinanceSymbol(cur),
                    text   |-> PriceText(shapes[i], cryptos[i], cur)]>>
    IN  Flat([i \in DOMAIN cryptos |-> ticker(i, "USD") \o ticker(i, "EUR")])

BinanceChangeData(shapes) ==
    LET ticker(i, cur) ==
            IF shapes[i] = "nochange" THEN <<>>
            ELSE <<[symbol |-> Chars(cryptos[i]) \o BinanceSymbol(cur),
                    text   |-> Numeral(UpstreamPercent(cryptos[i]))]>>
    IN  Flat([i \in DOMAIN cryptos |-> ticker(i, "USD") \o ticker(i, "EUR")])

BinanceJson(shapes) ==
    [transport |-> FALSE, priceIsArray |-> TRUE, changeIsArray |-> TRUE,
     priceData  |-> BinancePriceData(shapes),
     changeData |-> BinanceChangeData(shapes)]

BinanceTransportError ==
    [transport |-> TRUE, priceIsArray |-> FALSE, changeIsArray |-> FALSE,
     priceData |-> <<>>, changeData |-> <<>>]

\* An error object { code, msg } in place of the array of prices.
BinancePriceNotArray ==
    [transport |-> FALSE, priceIsArray |-> FALSE, changeIsArray |-> TRUE,
     priceData |-> <<>>, changeData |-> <<>>]

BinanceChangeNotArray ==
    [transport |-> FALSE, priceIsArray |-> TRUE, changeIsArray |-> FALSE,
     priceData |-> <<>>, changeData |-> <<>>]

BinanceResponses ==
    {BinanceTransportError, BinancePriceNotArray, BinanceChangeNotArray}
    \cup {BinanceJson(shapes) : shapes \in [DOMAIN cryptos -> BinanceShapes]}

Uniform(shape) == [i \in DOMAIN cryptos |-> shape]

\* Every source answers well.
HealthyResponses(cur) ==
    [kraken   |-> KrakenJson(Uniform("ok"), cur),
     coinbase |-> [i \in DOMAIN cryptos |-> CoinbaseData("ok", cryptos[i], cur)],
     binance  |-> BinanceJson(Uniform("ok"))]

CoinbaseJson(shapes, cur) ==
    [i \in DOMAIN cryptos |-> CoinbaseData(shapes[i], cryptos[i], cur)]

\* The answers a round of the component is given: every kind of failure of
\* every source, alone and together with the others.
KrakenRoundResponses(cur) ==
    {KrakenJson(Uniform("ok"), cur), KrakenTransportError, KrakenErrorField,
     KrakenJson(<<"ok", "ok", "absent">>, cur),
     KrakenJson(<<"junk", "negative", "zero">>, cur)}

CoinbaseRoundResponses(cur) ==
    {CoinbaseJson(Uniform("ok"), cur), CoinbaseJson(Uniform("transport"), cur),
     CoinbaseJson(<<"ok", "errors", "junk">>, cur),
     CoinbaseJson(<<"nodata", "zero", "negative">>, cur)}

BinanceRoundResponses ==
    {BinanceJson(Uniform("ok")), BinanceTransportError, BinancePriceNotArray,
     BinanceJson(<<"noprice", "nochange", "junk">>)}

RoundResponses(cur) ==
    [kraken : KrakenRoundResponses(cur),
     coinbase : CoinbaseRoundResponses(cur),
     binance : BinanceRoundResponses]

----------------------------------------------------------------------------
(* The component.                                                           *)

Platforms == {platforms[i] : i \in DOMAIN platforms}

NotCalled == [p \in Platforms |-> [called |-> FALSE, threw |-> FALSE, value |-> <<>>]]

Init ==
    /\ currency = "USD"
    /\ prices = <<>>
    /\ loading = TRUE
    /\ error = NoError
    /\ mounted = FALSE
    /\ timers = {}
    /\ rounds = <<>>
    /\ allPrices = <<>>
    /\ pubGen = 0
    /\ net = HealthyResponses("USD")
    /\ ret = NotCalled
    /\ settled = <<>>
    /\ sent = <<>>
    /\ hung = {}

InFlight == {i \in DOMAIN rounds : rounds[i].status = "inflight"}

\* The requests of one call of an adapter: one for Kraken (line 45), one per
\* asset for Coinbase (line 85), two for Binance (lines 127-128).
Requests(platform) ==
    CASE platform = "Kraken"   -> {<<"Kraken", "Ticker">>}
      [] platform = "Coinbase" -> {<<"Coinbase", cryptos[i]>> : i \in DOMAIN cryptos}
      [] platform = "Binance"  -> {<<"Binance", "price">>, <<"Binance", "24hr">>}

Endpoints == UNION {Requests(p) : p \in Platforms}

\* The place of a platform in platforms, and of an asset in cryptos.
PlatformIndex(platform) == CHOOSE k \in DOMAIN platforms : platforms[k] = platform

CryptoIndex(symbol) == CHOOSE k \in DOMAIN cryptos : cryptos[k] = symbol

\* The number of times fetch is called for each request over one call of
\* fetchAllPrices, entered as the call starts: Kraken (line 45) and Binance
\* (lines 126-129) call fetch as they are called; Coinbase (lines 82-86)
\* awaits each request before it makes the next, so a request of stuck that
\* never answers keeps the requests for the later assets from being made.
FetchCalls(stuck) ==
    [e \in Endpoints |->
        IF /\ e[1] = "Coinbase"
           /\ \E h \in stuck : /\ h[1] = "Coinbase"
                               /\ CryptoIndex(h[2]) < CryptoIndex(e[2])
        THEN 0 ELSE 1]

\* fetchAllPrices up to its await (lines 153-164): the closure called holds
\* the currency cur; the requests of the three adapters leave.
StartRound(cur) ==
    /\ Len(rounds) < MaxRounds
    /\ loading' = TRUE
    /\ error' = NoError
    /\ rounds' = Append(rounds, [cur |-> cur, status |-> "inflight", err |-> "none"])
    /\ sent' = Append(sent, FetchCalls(hung))

\* A cleanup that clears nothing.
KeepInterval(subscriptions) == subscriptions

\* clearInterval of the cleanup (line 177) and setInterval (line 176)
ClearInterval(subscriptions) == {}

\* The effect of lines 174-178 on the first render.
Mount ==
    /\ ~mounted
    /\ mounted' = TRUE
    /\ StartRound(currency)
    /\ timers' = {[cur |-> currency, gen |-> Len(rounds) + 1]}
    /\ UNCHANGED <<currency, prices, allPrices, pubGen, net, ret, settled, hung>>

\* setInterval's callback (line 176): the closure of the render the effect
\* ran in.
Tick ==
    /\ \E t \in timers : StartRound(t.cur)
    /\ UNCHANGED <<currency, prices, mounted, timers, allPrices, pubGen, net, ret,
                   settled, hung>>

\* The Refresh button (line 203): the closure of the present render.
Refresh ==
    /\ mounted
    /\ StartRound(currency)
    /\ UNCHANGED <<currency, prices, mounted, timers, allPrices, pubGen, net, ret,
                   settled, hung>>

\* The checkbox (line 197), then the effect of lines 174-178 for the new
\* currency: the cleanup of the old effect, a call and a new interval.
SetCurrency ==
    /\ mounted
    /\ \E cur \in Currencies \ {currency} :
        /\ currency' = cur
        /\ StartRound(cur)
        /\ timers' = ClearInterval(timers) \cup {[cur |-> cur, gen |-> Len(rounds) + 1]}
    /\ UNCHANGED <<prices, mounted, allPrices, pubGen, net, ret, settled, hung>>

\* What lines 162-168 do with the adapters' results: either the new snapshot,
\* or the catch block with the exception caught.  unexpected stands for an
\* exception in the try block that is none of the adapters'.
Outcome(results, unexpected) ==
    IF PromiseAllRejects(results)
    THEN [failed |-> TRUE, err |-> "adapter", all |-> <<>>, snapshot |-> <<>>]
    ELSE IF unexpected
    THEN [failed |-> TRUE, err |-> "unexpected", all |-> <<>>, snapshot |-> <<>>]
    ELSE [failed |-> FALSE, err |-> "none", all |-> Values(results),
          snapshot |-> FlatFilter(Values(results))]

\* lines 156-164: the three adapters are called with the currency of the
\* closure; responses are the answers their requests get.
RunAdapters(responses, cur) ==
    [k \in DOMAIN platforms |-> CallAdapter(platforms[k], responses, cur)]

\* Every way a round for each currency can end, over the answers and over
\* unexpected.
RoundOutcomes ==
    [cur \in Currencies |->
        {Outcome(RunAdapters(responses, cur), unexpected) :
            responses \in RoundResponses(cur), unexpected \in BOOLEAN}]

\* SnapshotAfter with the quotes of the sources that gave none kept from the
\* snapshot shown.
SnapshotPatched(out, old) ==
    IF out.failed THEN old
    ELSE LET fresh == {out.snapshot[k].platform : k \in DOMAIN out.snapshot}
             IsStale(quote) == quote.platform \notin fresh
         IN  out.snapshot \o SelectSeq(old, IsStale)

\* SnapshotAfter with the new quotes added to the ones shown.
SnapshotAppended(out, old) == IF out.failed THEN old ELSE old \o out.snapshot

\* SnapshotAfter with the snapshot cleared in the catch block.
SnapshotCleared(out, old) == IF out.failed THEN <<>> ELSE out.snapshot

\* The snapshot after lines 166-168: setPrices is called only when nothing
\* was thrown.
SnapshotAfter(out, old) == IF out.failed THEN old ELSE out.snapshot

\* The message after lines 166-168: setError is called only in the catch.
ErrorAfter(out, old) == IF out.failed THEN ErrorMessage ELSE old

\* lines 166-171 for the call rounds[i], whose try block ended as out.
Finish(i, out) ==
    /\ prices' = SnapshotAfter(out, prices)
    /\ error' = ErrorAfter(out, error)
    /\ allPrices' = IF out.failed THEN allPrices ELSE out.all
    /\ pubGen' = IF out.failed THEN pubGen ELSE i
    /\ rounds' = [rounds EXCEPT ![i].status = IF out.failed THEN "failed" ELSE "ok",
                                ![i].err = out.err]
    /\ loading' = FALSE

\* fetchAllPrices from its await on (lines 162-171), for the call rounds[i].
Settle ==
    /\ \E i \in InFlight :
       \E out \in RoundOutcomes[rounds[i].cur] : Finish(i, out)
    /\ UNCHANGED <<currency, mounted, timers, net, ret, settled, sent, hung>>

Next == Mount \/ Tick \/ Refresh \/ SetCurrency \/ Settle

Spec == Init /\ [][Next]_vars

----------------------------------------------------------------------------
(* One round in detail: the adapters of a call return one by one, in any    *)
(* order, and the call goes on when all have (Promise.all, line 162).       *)

KrakenFailures(cur) ==
    {KrakenTransportError, KrakenErrorField, KrakenNoResult,
     KrakenJson(Uniform("absent"), cur)}

CoinbaseFailures(cur) ==
    {CoinbaseJson(Uniform(shape), cur) : shape \in {"transport", "errors", "nodata"}}

BinanceFailures ==
    {BinanceTransportError, BinancePriceNotArray, BinanceChangeNotArray,
     BinanceJson(Uniform("noprice"))}

\* The answers a round is studied under: every answer to one source with the
\* others well, every way all three fail, and the answers of RoundResponses.
AdapterInputs(cur) ==
    LET well == HealthyResponses(cur)
    IN  [kraken : KrakenResponses(cur), coinbase : {well.coinbase}, binance : {well.binance}]
        \cup [kraken : {well.kraken}, coinbase : CoinbaseResponses(cur), binance : {well.binance}]
        \cup [kraken : {well.kraken}, coinbase : {well.coinbase}, binance : BinanceResponses]
        \cup [kraken : KrakenFailures(cur), coinbase : CoinbaseFailures(cur),
              binance : BinanceFailures]
        \cup RoundResponses(cur)

\* The component right after its effect ran: for USD after Mount; for EUR
\* after Mount, a round that went well and SetCurrency.
RoundStarted ==
    /\ currency \in Currencies
    /\ loading = TRUE
    /\ error = NoError
    /\ mounted = TRUE
    /\ LET first == Outcome(RunAdapters(HealthyResponses("USD"), "USD"), FALSE)
       IN  IF currency = "USD"
           THEN /\ rounds = <<[cur |-> "USD", status |-> "inflight", err |-> "none"]>>
                /\ prices = <<>>
                /\ allPrices = <<>>
                /\ pubGen = 0
           ELSE /\ rounds = <<[cur |-> "USD", status |-> "ok", err |-> "none"],
                              [cur |-> "EUR", status |-> "inflight", err |-> "none"]>>
                /\ prices = first.snapshot
                /\ allPrices = first.all
                /\ pubGen = 1
    /\ timers = {[cur |-> currency, gen |-> Len(rounds)]}
    /\ sent = [i \in DOMAIN rounds |-> FetchCalls(hung)]
    /\ ret = NotCalled
    /\ settled = <<>>

InitRound ==
    /\ hung = {}
    /\ RoundStarted
    /\ net \in AdapterInputs(currency)

\* The catch blocks (lines 74-77, 105-113, 117-120, 146-149) return a value
\* and call fetch no more: the fetch calls of a call stay as they were when
\* an adapter returns result.
FetchesWithRetry(calls, platform, result) ==
    IF result.value = <<>> \/ \E k \in DOMAIN result.value : result.value[k].price = Num(0)
    THEN [e \in DOMAIN calls |-> IF e \in Requests(platform) THEN calls[e] + 1 ELSE calls[e]]
    ELSE calls

FetchesAfterReturn(calls, platform, result) == calls

\* One adapter of the call in flight returns (lines 39-150), once each of
\* its requests has got an answer.
AdapterReturns ==
    /\ \E i \in InFlight, p \in Platforms :
        /\ ~ret[p].called
        /\ Requests(p) \cap hung = {}
        /\ LET result == CallAdapter(p, net, rounds[i].cur)
           IN  /\ ret' = [ret EXCEPT ![p] = [called |-> TRUE, threw |-> result.threw,
                                             value |-> result.value]]
               /\ sent' = [sent EXCEPT ![i] = FetchesAfterReturn(sent[i], p, result)]
        /\ settled' = Append(settled, p)
    /\ UNCHANGED <<currency, prices, loading, error, mounted, timers, rounds,
                   allPrices, pubGen, net, hung>>

\* Promise.all with only some of its promises awaited.
AnySettled(returned) == \E p \in Platforms : returned[p].called

\* await Promise.all (line 162) goes on when every promise has settled.
AllSettled(returned) == \A p \in Platforms : returned[p].called

\* Promise.all with its results in the order the promises settled.
ResultsByArrival(returned, order) ==
    [k \in DOMAIN platforms |->
        IF k \in DOMAIN order
        THEN [threw |-> returned[order[k]].threw, value |-> returned[order[k]].value]
        ELSE [threw |-> FALSE, value |-> <<>>]]

\* The array Promise.all resolves to (lines 162-164): the result of each
\* promise at the place of that promise, whatever the order they settled in.
PromiseAllResults(returned, order) ==
    [k \in DOMAIN platforms |->
        [threw |-> returned[platforms[k]].threw, value |-> returned[platforms[k]].value]]

\* All three have returned: the call goes on after its await (lines 162-171).
Join ==
    /\ AllSettled(ret)
    /\ \E i \in InFlight, unexpected \in BOOLEAN :
        Finish(i, Outcome(PromiseAllResults(ret, settled), unexpected))
    /\ UNCHANGED <<currency, mounted, timers, net, ret, settled, sent, hung>>

NextRound == AdapterReturns \/ Join

SpecRound == InitRound /\ [][NextRound]_vars

----------------------------------------------------------------------------
(* Refresh pressed again and again while the exchanges hold the same data:  *)
(* every call of the behaviour is answered by net.                          *)

InitRefresh ==
    /\ hung = {}
    /\ RoundStarted
    /\ net \in RoundResponses(currency)

\* fetchAllPrices from its await on (lines 162-171), for the call rounds[i],
\* answered by net.
SettleSame ==
    /\ \E i \in InFlight, unexpected \in BOOLEAN :
        Finish(i, Outcome(RunAdapters(net, rounds[i].cur), unexpected))
    /\ UNCHANGED <<currency, mounted, timers, net, ret, settled, sent, hung>>

NextRefresh == Refresh \/ SettleSame

SpecRefresh == InitRefresh /\ [][NextRefresh]_vars

----------------------------------------------------------------------------
(* One round whose requests may stay without an answer.  The event loop     *)
(* runs every continuation whose promise has settled: an adapter whose      *)
(* requests are all answered returns, and the call goes on once all three   *)
(* adapters have.                                                           *)

\* No request hangs, or exactly one does.
Hangs == {{}} \cup {{e} : e \in Endpoints}

\* The answers the join is studied under: those of RoundResponses in which
\* at most one source answers otherwise than well.
JoinInputs(cur) ==
    LET well == HealthyResponses(cur)
    IN  {r \in RoundResponses(cur) :
            Cardinality({f \in {"kraken", "coinbase", "binance"} : r[f] # well[f]}) <= 1}

InitJoin ==
    /\ hung \in Hangs
    /\ RoundStarted
    /\ net \in JoinInputs(currency)

SpecJoin ==
    InitJoin /\ [][NextRound]_vars /\ WF_vars(AdapterReturns) /\ WF_vars(Join)

----------------------------------------------------------------------------
(* Properties.                                                              *)

Last == Len(rounds)

AllSettledWell ==
    /\ rounds # <<>>
    /\ \A i \in DOMAIN rounds : rounds[i].status = "ok"

\* C1: once the round of the old currency and the round of the new currency
\* have both settled (here: every round has, and none failed), the snapshot
\* shown is the one of a round for the present currency.
C1_SnapshotOfPresentCurrency ==
    AllSettledWell => rounds[pubGen].cur = currency

\* C2: a round publishes its result only if it is the latest round started
\* when it completes; the result of a superseded round is dropped.
C2_OnlyLatestRoundPublishes ==
    [][pubGen' # pubGen => pubGen' = Len(rounds)]_vars

\* C3: whatever the answers, each adapter returns one quote per asset asked
\* for, in the order of the asset list.
C3_OneQuotePerAsset ==
    \A p \in Platforms :
        ret[p].called =>
            /\ Len(ret[p].value) = Len(cryptos)
            /\ \A i \in DOMAIN cryptos : ret[p].value[i].symbol = cryptos[i]

\* C4: every quote of the snapshot has a price that is a number above 0.
C4_SnapshotPricesPositive ==
    \A k \in DOMAIN prices : ~prices[k].price.nan /\ prices[k].price.v > 0

\* C4 witness: a snapshot was published that kept some quotes of its round
\* and dropped others.
C4_Witness ==
    /\ pubGen # 0
    /\ prices # <<>>
    /\ Len(prices) < Len(Flat(allPrices))

KrakenFailed(data) ==
    data.transport \/ Len(data.error) > 0 \/ ~data.hasResult \/ data.result = <<>>

CoinbaseAssetFailed(data) == data.transport \/ data.hasErrors \/ ~data.hasData

CoinbaseFailed(datas) == \A i \in DOMAIN datas : CoinbaseAssetFailed(datas[i])

BinanceFailed(data) ==
    data.transport \/ ~data.priceIsArray \/ ~data.changeIsArray \/ data.priceData = <<>>

AllSourcesFail ==
    KrakenFailed(net.kraken) /\ CoinbaseFailed(net.coinbase) /\ BinanceFailed(net.binance)

\* C5: a round in which all three sources fail entirely ends with an empty
\* snapshot published, loading off and no error message (Ready, not Failed),
\* unless an exception that is none of the sources' ended it.
C5_AllFailIsReadyAndEmpty ==
    (AllSourcesFail /\ InFlight = {} /\ rounds[Last].err # "unexpected") =>
        /\ rounds[Last].status = "ok"
        /\ pubGen = Last
        /\ prices = <<>>
        /\ error = NoError
        /\ ~loading

\* C5 witness: all three sources failed in the EUR round, which replaced the
\* USD snapshot by the empty one.
C5_Witness ==
    /\ AllSourcesFail
    /\ currency = "EUR"
    /\ InFlight = {}
    /\ rounds[Last].status = "ok"
    /\ prices = <<>>

\* C6: no failure of a source or an asset leaves an adapter as an exception:
\* every adapter call returns a value, and no round's catch block ever holds
\* an exception of an adapter.
C6_AdaptersNeverThrow ==
    /\ \A p \in Platforms : ret[p].called => ~ret[p].threw
    /\ \A i \in DOMAIN rounds : rounds[i].err # "adapter"

\* C6 witness: every source failed, each adapter returned, the round ended.
C6_Witness ==
    /\ net.kraken = KrakenTransportError
    /\ net.binance = BinancePriceNotArray
    /\ CoinbaseFailed(net.coinbase)
    /\ \A p \in Platforms : ret[p].called /\ ~ret[p].threw
    /\ InFlight = {}

\* C7: the step in which a round ends in its catch block leaves the snapshot
\* as it was.
C7_FailedRoundKeepsSnapshot ==
    [][(\E i \in DOMAIN rounds :
            rounds[i].status = "inflight" /\ rounds'[i].status = "failed")
        => (prices' = prices /\ pubGen' = pubGen)]_vars

\* C7 witness: the last round failed and the snapshot of an earlier round is
\* still there.
C7_Witness ==
    /\ Last > 1
    /\ rounds[Last].status = "failed"
    /\ pubGen # 0
    /\ pubGen < Last
    /\ prices # <<>>

TwoOfThree ==
    {shapes \in [DOMAIN cryptos -> {"ok", "absent"}] :
        Cardinality({i \in DOMAIN cryptos : shapes[i] = "absent"}) = 1}

ScenarioA == \E shapes \in TwoOfThree : net.kraken = KrakenJson(shapes, currency)

IsKraken(quote) == quote.platform = "Kraken"

\* C8: when Kraken's answer holds two of the three assets, the adapter
\* returns three quotes, exactly one of price 0 and the two others with the
\* prices of the answer, and the snapshot holds for Kraken exactly those two.
C8_ScenarioA ==
    (ScenarioA /\ ret["Kraken"].called) =>
        LET value == ret["Kraken"].value
            zero  == {i \in DOMAIN value : value[i].price = Num(0)}
        IN  /\ Len(value) = 3
            /\ Cardinality(zero) = 1
            /\ \A i \in DOMAIN value \ zero :
                  /\ value[i].symbol = cryptos[i]
                  /\ value[i].price = Num(UpstreamPrice(cryptos[i], currency))
            /\ rounds[Last].status = "ok" =>
                  LET j == CHOOSE i \in zero : TRUE
                  IN  SelectSeq(prices, IsKraken) =
                          SubSeq(value, 1, j - 1) \o SubSeq(value, j + 1, 3)

\* C8 witness: such a round has published its snapshot.
C8_Witness ==
    /\ ScenarioA
    /\ rounds[Last].status = "ok"
    /\ pubGen = Last

\* C9: in the Coinbase adapter each asset whose request failed gets the
\* fallback quote and each other asset the quote of its own answer, whatever
\* happened to its siblings.
C9_CoinbaseAssetsIndependent ==
    ret["Coinbase"].called =>
        LET value == ret["Coinbase"].value
        IN  /\ Len(value) = Len(cryptos)
            /\ \A i \in DOMAIN cryptos :
                  IF CoinbaseAssetFailed(net.coinbase[i])
                  THEN value[i] = Fallback(cryptos[i], "Coinbase")
                  ELSE /\ value[i].symbol = cryptos[i]
                       /\ value[i].platform = "Coinbase"
                       /\ value[i].price = parseFloat(net.coinbase[i].amount)

\* C9 witness: the adapter returned with one asset failed and one resolved.
C9_Witness ==
    /\ ret["Coinbase"].called
    /\ \E i, j \in DOMAIN cryptos :
        /\ CoinbaseAssetFailed(net.coinbase[i])
        /\ ~CoinbaseAssetFailed(net.coinbase[j])
        /\ ret["Coinbase"].value[j].price.v > 0

\* C10: a change of currency starts at once a round for the new currency and
\* replaces the interval: the subscriptions of before are gone and exactly one,
\* for the new currency, is live; so every round started later, by whatever
\* trigger, is for the present currency.
C10_CurrencyChangeRestartsTimer ==
    [][/\ currency' # currency =>
            /\ rounds' = Append(rounds, [cur |-> currency', status |-> "inflight",
                                         err |-> "none"])
            /\ timers' \cap timers = {}
       /\ mounted' => /\ Cardinality(timers') = 1
                      /\ \A t \in timers' : t.cur = currency'
       /\ Len(rounds') > Len(rounds) => rounds'[Len(rounds')].cur = currency'
      ]_vars

\* C10 witness: after a change to EUR a later trigger started one more round.
C10_Witness ==
    /\ currency = "EUR"
    /\ Len(rounds) >= 3
    /\ rounds[2].cur = "EUR"
    /\ rounds[3].cur = "EUR"
    /\ timers = {[cur |-> "EUR", gen |-> 2]}

ReferenceCents(crypto, cur) ==
    CASE crypto = "BTC" /\ cur = "EUR" -> 7000000
      [] crypto = "BTC" /\ cur = "USD" -> 7560000
      [] crypto = "ETH" /\ cur = "EUR" -> 270000
      [] crypto = "ETH" /\ cur = "USD" -> 291600
      [] crypto = "SOL" /\ cur = "EUR" -> 18600
      [] crypto = "SOL" /\ cur = "USD" -> 20088

\* The assets Coinbase resolved to a number.
CoinbaseResolved ==
    {i \in DOMAIN cryptos :
        /\ ret["Coinbase"].called
        /\ ~CoinbaseAssetFailed(net.coinbase[i])
        /\ ~ret["Coinbase"].value[i].price.nan}

\* C12: the reference price looked up for an asset is the value of the table
\* when the currency is the base currency (EUR) and 1.08 times that value
\* otherwise, for each of the three assets; BTC = 70000 gives 75600.
C12_ReferenceLookup ==
    /\ \A i \in CoinbaseResolved :
          ret["Coinbase"].value[i].priceChange24h.den = ReferenceCents(cryptos[i], currency)
    /\ \A i \in DOMAIN cryptos :
          /\ ReferenceCents(cryptos[i], "EUR") = YESTERDAY_PRICES_EUR(cryptos[i])
          /\ ReferenceCents(cryptos[i], "USD") * 100 =
                 YESTERDAY_PRICES_EUR(cryptos[i]) * 108

\* C12 witness: Coinbase resolved BTC in USD against the reference 75600.00.
C12_Witness ==
    /\ currency = "USD"
    /\ 1 \in CoinbaseResolved
    /\ ret["Coinbase"].value[1].priceChange24h.den = 7560000

\* C13: the 24h change of a quote Coinbase resolved is
\* (current - reference) / reference x 100 with the reference of the currency
\* of the round; 72000 against 70000 gives 20/7 = 2.857142857...
C13_CoinbaseChange ==
    \A i \in CoinbaseResolved :
        LET quote == ret["Coinbase"].value[i]
            ref   == ReferenceCents(cryptos[i], currency)
        IN  /\ ~quote.priceChange24h.nan
            /\ quote.priceChange24h.num = (quote.price.v - ref) * 100
            /\ quote.priceChange24h.den = ref
            /\ (quote.price.v = 7200000 /\ ref = 7000000) =>
                   quote.priceChange24h.num * 7 = quote.priceChange24h.den * 20

\* C13 witness: Coinbase resolved BTC at 72000.00 EUR.
C13_Witness ==
    /\ currency = "EUR"
    /\ 1 \in CoinbaseResolved
    /\ ret["Coinbase"].value[1].price = Num(7200000)
    /\ ret["Coinbase"].value[1].priceChange24h = Frac(20000000, 7000000)

\* C14: a round goes on only when all three adapters have returned, and what
\* it builds is their outputs one after the other in the order Kraken,
\* Coinbase, Binance, each in the order of the assets, whatever the order
\* the adapters returned in.
C14_JoinThenConcatInSourceOrder ==
    /\ rounds[Last].status # "inflight" => Len(settled) = Len(platforms)
    /\ rounds[Last].status = "ok" =>
          /\ allPrices = [k \in DOMAIN platforms |-> ret[platforms[k]].value]
          /\ \A a, b \in DOMAIN prices :
                a < b =>
                   \/ PlatformIndex(prices[a].platform) < PlatformIndex(prices[b].platform)
                   \/ /\ prices[a].platform = prices[b].platform
                      /\ CryptoIndex(prices[a].symbol) < CryptoIndex(prices[b].symbol)

\* C14 witness: the adapters returned in the order Binance, Coinbase, Kraken
\* and the snapshot holds quotes of all three.
C14_Witness ==
    /\ settled = <<"Binance", "Coinbase", "Kraken">>
    /\ rounds[Last].status = "ok"
    /\ pubGen = Last
    /\ \A p \in Platforms : \E a \in DOMAIN prices : prices[a].platform = p

\* C15: the snapshot is at all times either the empty one of before any
\* round, or the whole filtered output of one round that completed: of the
\* call pubGen, for the currency of that call, and of nothing else.
C15_SnapshotOfOneRound ==
    IF pubGen = 0
    THEN prices = <<>>
    ELSE /\ rounds[pubGen].status = "ok"
         /\ \E out \in RoundOutcomes[rounds[pubGen].cur] :
               ~out.failed /\ out.all = allPrices /\ out.snapshot = prices

\* C15 witness: a round for EUR replaced the snapshot of a round for USD.
C15_Witness ==
    /\ Len(rounds) >= 2
    /\ rounds[1].cur = "USD"
    /\ rounds[1].status = "ok"
    /\ rounds[2].cur = "EUR"
    /\ rounds[2].status = "ok"
    /\ pubGen = 2
    /\ prices # <<>>

\* C16: a quote an adapter returns with price 0 has the 24h change 0.
C16_ZeroPriceZeroChange ==
    \A p \in Platforms :
        ret[p].called =>
            \A k \in DOMAIN ret[p].value :
                ret[p].value[k].price = Num(0) =>
                    LET change == ret[p].value[k].priceChange24h
                    IN  ~change.nan /\ change.num = 0 /\ change.den # 0

C18_StrictJoin ==
    /\ [](rounds[Last].status # "inflight" => \A p \in Platforms : ret[p].called)
    /\ ((hung = {}) ~> (InFlight = {}))
    /\ [](hung # {} => (rounds[Last].status = "inflight" /\ loading))

\* C18 witness: Kraken's request hangs, Coinbase and Binance have returned,
\* and the round is still in flight.
C18_Witness ==
    /\ hung = {<<"Kraken", "Ticker">>}
    /\ ret["Coinbase"].called
    /\ ret["Binance"].called
    /\ ~ret["Kraken"].called
    /\ rounds[Last].status = "inflight"

\* C19: once mounted, loading is true exactly when some round is in flight.
C19_LoadingIffInFlight ==
    mounted => (loading <=> InFlight # {})

\* C20: when no round is in flight, the error message is set exactly when
\* the round started last ended in its catch block.
C20_ErrorIffLastRoundFailed ==
    (rounds # <<>> /\ InFlight = {}) =>
        (error # NoError <=> rounds[Last].status = "failed")

====
